---- MODULE Spec2Model ----
(***************************************************************************)
(* A model of assembler.py: the translation of assembly source lines into  *)
(* machine words (parse_line and the encoders) and the run of              *)
(* assemble_file over an input file.                                       *)
(*                                                                         *)
(* Text is modelled as sequences of one-character strings, so that         *)
(* stripping, splitting, upper-casing, integer parsing and hex formatting  *)
(* are computed the way the Python built-ins compute them.                 *)
(***************************************************************************)
EXTENDS Integers, Sequences, FiniteSets, TLC

VARIABLES
    input,          \* the lines of the input file, in order
    pos,            \* how many lines the `for line in f` loop has fetched
    machine_codes,  \* assemble_file's list of encoded words
    outfile,        \* the output file: whether it was opened, and its text
    i,              \* the index of the writing loop, range(0, len, 8)
    stdout,         \* what assemble_file has printed
    raised,         \* the exception that left assemble_file, if any
    pc,             \* where the run is
    arg,            \* the argument of a direct call of a function
    ret             \* what that call returned or raised

vars == <<input, pos, machine_codes, outfile, i, stdout, raised, pc, arg, ret>>

---------------------------------------------------------------------------
(* Results of a Python call: a value, None, or a raised exception.         *)

Ok(v) == [tag |-> "ok", val |-> v, exc |-> "", msg |-> ""]

None == [tag |-> "none", val |-> 0, exc |-> "", msg |-> ""]

Raise(e, m) == [tag |-> "raise", val |-> 0, exc |-> e, msg |-> m]

InvalidRegister == Raise("ValueError", "Invalid register")

RegisterOutOfRangeError == Raise("ValueError", "Register out of range")

InvalidLiteral == Raise("ValueError", "invalid literal for int() with base 10")

ListIndexOutOfRange == Raise("IndexError", "list index out of range")

UnknownInstructionError == Raise("ValueError", "Unknown instruction")

UnhandledFormat == Raise("ValueError", "Unhandled instruction format")

NoCall == [tag |-> "nocall", val |-> 0, exc |-> "", msg |-> ""]

---------------------------------------------------------------------------
(* Python's str and int built-ins, on sequences of characters.             *)

Whitespace == {" ", "\t", "\n", "\r"}

DigitChars == <<"0", "1", "2", "3", "4", "5", "6", "7", "8", "9">>

HexChars == DigitChars \o <<"a", "b", "c", "d", "e", "f">>

LowerChars == <<"a", "b", "c", "d", "e", "f", "g", "h", "i", "j", "k", "l", "m",
                "n", "o", "p", "q", "r", "s", "t", "u", "v", "w", "x", "y", "z">>

UpperChars == <<"A", "B", "C", "D", "E", "F", "G", "H", "I", "J", "K", "L", "M",
                "N", "O", "P", "Q", "R", "S", "T", "U", "V", "W", "X", "Y", "Z">>

Range(s) == {s[k] : k \in DOMAIN s}

IndexIn(s, c) == CHOOSE k \in DOMAIN s : s[k] = c

RECURSIVE lstrip(_)
lstrip(s) == IF s # <<>> /\ Head(s) \in Whitespace THEN lstrip(Tail(s)) ELSE s

RECURSIVE rstrip(_)
rstrip(s) ==
    IF s # <<>> /\ s[Len(s)] \in Whitespace
    THEN rstrip(SubSeq(s, 1, Len(s) - 1))
    ELSE s

strip(s) == rstrip(lstrip(s))

\* line.split("//")[0]: the text before the first "//"
RECURSIVE BeforeComment(_)
BeforeComment(s) ==
    IF Len(s) < 2 THEN s
    ELSE IF s[1] = "/" /\ s[2] = "/" THEN <<>>
    ELSE <<s[1]>> \o BeforeComment(Tail(s))

\* line.replace(",", " ")
CommasToSpaces(s) == [k \in DOMAIN s |-> IF s[k] = "," THEN " " ELSE s[k]]

\* str.split(): the maximal runs of non-whitespace characters
RECURSIVE SplitRuns(_, _, _)
SplitRuns(s, cur, acc) ==
    LET flushed == IF cur = <<>> THEN acc ELSE Append(acc, cur) IN
    IF s = <<>> THEN flushed
    ELSE IF Head(s) \in Whitespace THEN SplitRuns(Tail(s), <<>>, flushed)
    ELSE SplitRuns(Tail(s), Append(cur, Head(s)), acc)

split(s) == SplitRuns(s, <<>>, <<>>)

upper(s) ==
    [k \in DOMAIN s |->
        IF s[k] \in Range(LowerChars) THEN UpperChars[IndexIn(LowerChars, s[k])]
        ELSE s[k]]

startswith(s, c) == s # <<>> /\ s[1] = c

\* the digits of an int() literal: digits, single underscores between them
IsDigitBody(b) ==
    /\ b # <<>>
    /\ \A k \in DOMAIN b : b[k] \in Range(DigitChars) \cup {"_"}
    /\ b[1] # "_"
    /\ b[Len(b)] # "_"
    /\ \A k \in 1..(Len(b) - 1) : ~(b[k] = "_" /\ b[k + 1] = "_")

RECURSIVE DigitsValue(_, _)
DigitsValue(b, acc) ==
    IF b = <<>> THEN acc
    ELSE IF Head(b) = "_" THEN DigitsValue(Tail(b), acc)
    ELSE DigitsValue(Tail(b), 10 * acc + (IndexIn(DigitChars, Head(b)) - 1))

\* int(s): surrounding whitespace, an optional sign, then the digits
py_int(s) ==
    LET t == strip(s)
        signedLit == t # <<>> /\ t[1] \in {"+", "-"}
        body == IF signedLit THEN Tail(t) ELSE t
    IN  IF ~IsDigitBody(body) THEN InvalidLiteral
        ELSE IF signedLit /\ t[1] = "-" THEN Ok(0 - DigitsValue(body, 0))
        ELSE Ok(DigitsValue(body, 0))

\* x << n
Shl(x, n) == x * (2 ^ n)

\* a | b on non-negative integers
RECURSIVE BitOr(_, _)
BitOr(a, b) ==
    IF a = 0 THEN b
    ELSE IF b = 0 THEN a
    ELSE (IF a % 2 = 1 \/ b % 2 = 1 THEN 1 ELSE 0) + 2 * BitOr(a \div 2, b \div 2)

\* a & m for a mask m >= 0; a negative a is an infinite two's-complement number
RECURSIVE BitAnd(_, _)
BitAnd(a, m) ==
    IF m = 0 THEN 0
    ELSE (a % 2) * (m % 2) + 2 * BitAnd(a \div 2, m \div 2)

---------------------------------------------------------------------------
(* assembler.py                                                            *)

\* the mnemonics, the keys of OPCODES
ADD == <<"A", "D", "D">>

SUB == <<"S", "U", "B">>

NAND == <<"N", "A", "N", "D">>

NOR == <<"N", "O", "R">>

SRL == <<"S", "R", "L">>

SRA == <<"S", "R", "A">>

ADDI == <<"A", "D", "D", "I">>

SUBI == <<"S", "U", "B", "I">>

NANDI == <<"N", "A", "N", "D", "I">>

NORI == <<"N", "O", "R", "I">>

LD == <<"L", "D">>

ST == <<"S", "T">>

JUMP == <<"J", "U", "M", "P">>

JAL == <<"J", "A", "L">>

LUI == <<"L", "U", "I">>

CMOV == <<"C", "M", "O", "V">>

PUSH == <<"P", "U", "S", "H">>

POP == <<"P", "O", "P">>

\* the table with the opcode of PUSH given to POP as well
OpcodesReused ==
    ADD :> 0 @@ SUB :> 1 @@ NAND :> 2 @@ NOR :> 3 @@ SRL :> 4 @@ SRA :> 5 @@
    ADDI :> 6 @@ SUBI :> 7 @@ NANDI :> 8 @@ NORI :> 9 @@ LD :> 10 @@ ST :> 11 @@
    JUMP :> 12 @@ JAL :> 13 @@ LUI :> 14 @@ CMOV :> 15 @@ PUSH :> 16 @@ POP :> 16

OPCODES ==
    ADD :> 0 @@
    SUB :> 1 @@
    NAND :> 2 @@
    NOR :> 3 @@
    SRL :> 4 @@
    SRA :> 5 @@
    ADDI :> 6 @@
    SUBI :> 7 @@
    NANDI :> 8 @@
    NORI :> 9 @@
    LD :> 10 @@
    ST :> 11 @@
    JUMP :> 12 @@
    JAL :> 13 @@
    LUI :> 14 @@
    CMOV :> 15 @@
    PUSH :> 16 @@
    POP :> 17

reg_number(r) ==
    IF ~startswith(r, "R") THEN InvalidRegister
    ELSE LET num == py_int(Tail(r)) IN
         IF num.tag = "raise" THEN num
         ELSE IF ~(0 <= num.val /\ num.val <= 15) THEN RegisterOutOfRangeError
         ELSE Ok(num.val)

\* signed with the mask left out on the negative path
signedUnmaskedNegative(val, bits) ==
    IF val < 0 THEN Shl(1, bits) + val ELSE BitAnd(val, Shl(1, bits) - 1)

signed(val, bits) ==
    LET v == IF val < 0 THEN Shl(1, bits) + val ELSE val
    IN  BitAnd(v, Shl(1, bits) - 1)

\* encode_R with the opcode shifted as for a 16-bit word
encode_R_Shift11(op, rd, rs1, rs2) ==
    BitOr(BitOr(BitOr(Shl(op, 11), Shl(rd, 9)), Shl(rs1, 5)), Shl(rs2, 1))

encode_R(op, rd, rs1, rs2) ==
    BitOr(BitOr(BitOr(Shl(op, 13), Shl(rd, 9)), Shl(rs1, 5)), Shl(rs2, 1))

\* encode_I with the immediate truncated to 6 bits, one more than its field
encode_I_WideImm(op, rd, rs1, imm5) ==
    BitOr(BitOr(BitOr(Shl(op, 13), Shl(rd, 9)), Shl(rs1, 5)), signed(imm5, 6))

encode_I(op, rd, rs1, imm5) ==
    BitOr(BitOr(BitOr(Shl(op, 13), Shl(rd, 9)), Shl(rs1, 5)), signed(imm5, 5))

encode_M(op, reg, addr) ==
    BitOr(BitOr(Shl(op, 13), Shl(reg, 9)), BitAnd(addr, 511))

encode_J(op, offset) == BitOr(Shl(op, 13), signed(offset, 13))

encode_U(op, rd, imm9) ==
    BitOr(BitOr(Shl(op, 13), Shl(rd, 9)), BitAnd(imm9, 511))

encode_CMOV(op, r1, r2, r3) ==
    BitOr(BitOr(BitOr(Shl(op, 13), Shl(r1, 9)), Shl(r2, 5)), Shl(r3, 1))

encode_STACK(op, reg) == BitOr(Shl(op, 13), Shl(reg, 9))

\* parts[k], which raises IndexError when the line has no such token
HasPart(parts, k) == k + 1 <= Len(parts)

\* reg_number(parts[k]) with a missing operand read as R0
RegAtDefaultsToR0(parts, k) ==
    IF ~HasPart(parts, k) THEN Ok(0) ELSE reg_number(parts[k + 1])

\* reg_number(parts[k])
RegAt(parts, k) ==
    IF ~HasPart(parts, k) THEN ListIndexOutOfRange ELSE reg_number(parts[k + 1])

\* int(parts[k])
IntAt(parts, k) ==
    IF ~HasPart(parts, k) THEN ListIndexOutOfRange ELSE py_int(parts[k + 1])

\* the statements of a branch, in order: the first one that raises ends it
Then1(a, word) == IF a.tag = "raise" THEN a ELSE Ok(word)

Then2(a, b, word) == IF a.tag = "raise" THEN a ELSE Then1(b, word)

Then3(a, b, c, word) == IF a.tag = "raise" THEN a ELSE Then2(b, c, word)

\* the mnemonic lists of the format branches of parse_line, in order:
\* R-type, I-type, LD, ST, JUMP/JAL, LUI, CMOV, PUSH/POP
Branches ==
    << {ADD, SUB, NAND, NOR, SRL, SRA},
       {ADDI, SUBI, NANDI, NORI},
       {LD},
       {ST},
       {JUMP, JAL},
       {LUI},
       {CMOV},
       {PUSH, POP} >>

\* what each branch reads from parts[1], parts[2], ...: a register or an int
BranchOperands ==
    << <<"reg", "reg", "reg">>,
       <<"reg", "reg", "int">>,
       <<"reg", "int">>,
       <<"reg", "int">>,
       <<"int">>,
       <<"reg", "int">>,
       <<"reg", "reg", "reg">>,
       <<"reg">> >>

\* the chain of format branches of parse_line, for a mnemonic of OPCODES
Dispatch(ins, parts) ==
    LET op == OPCODES[ins]
        p1r == RegAt(parts, 1)
        p2r == RegAt(parts, 2)
        p3r == RegAt(parts, 3)
        p1i == IntAt(parts, 1)
        p2i == IntAt(parts, 2)
        p3i == IntAt(parts, 3)
    IN  IF ins \in Branches[1]
        THEN Then3(p1r, p2r, p3r, encode_R(op, p1r.val, p2r.val, p3r.val))
        ELSE IF ins \in Branches[2]
        THEN Then3(p1r, p2r, p3i, encode_I(op, p1r.val, p2r.val, p3i.val))
        ELSE IF ins \in Branches[3]
        THEN Then2(p1r, p2i, encode_M(op, p1r.val, p2i.val))
        ELSE IF ins \in Branches[4]
        THEN Then2(p1r, p2i, encode_M(op, p1r.val, p2i.val))
        ELSE IF ins \in Branches[5]
        THEN Then1(p1i, encode_J(op, p1i.val))
        ELSE IF ins \in Branches[6]
        THEN Then2(p1r, p2i, encode_U(op, p1r.val, p2i.val))
        ELSE IF ins \in Branches[7]
        THEN Then3(p1r, p2r, p3r, encode_CMOV(op, p1r.val, p2r.val, p3r.val))
        ELSE IF ins \in Branches[8]
        THEN Then1(p1r, encode_STACK(op, p1r.val))
        ELSE UnhandledFormat

parse_line(line) ==
    LET text == strip(BeforeComment(line)) IN
    IF text = <<>> THEN None
    ELSE LET parts == split(CommasToSpaces(text)) IN
         IF ~HasPart(parts, 0) THEN ListIndexOutOfRange
         ELSE LET ins == upper(parts[1]) IN
              IF ins \notin DOMAIN OPCODES THEN UnknownInstructionError
              ELSE Dispatch(ins, parts)

\* f"{code:05x}": lowercase hex, zero-padded to at least five digits
RECURSIVE ToHex(_)
ToHex(n) ==
    IF n < 16 THEN <<HexChars[n + 1]>>
    ELSE ToHex(n \div 16) \o <<HexChars[(n % 16) + 1]>>

RECURSIVE ZeroPad(_, _)
ZeroPad(s, w) == IF Len(s) >= w THEN s ELSE ZeroPad(<<"0">> \o s, w)

FormatWord(code) == ZeroPad(ToHex(code), 5)

\* seq[a:b] with the end index included
SliceInclusive(seq, a, b) ==
    SubSeq(seq, a + 1, IF b + 1 < Len(seq) THEN b + 1 ELSE Len(seq))

\* seq[a:b]
Slice(seq, a, b) == SubSeq(seq, a + 1, IF b < Len(seq) THEN b ELSE Len(seq))

\* sep.join(strs)
RECURSIVE Join(_, _)
Join(strs, sep) ==
    IF strs = <<>> THEN <<>>
    ELSE IF Len(strs) = 1 THEN strs[1]
    ELSE strs[1] \o sep \o Join(Tail(strs), sep)

Header == <<"v", "2", ".", "0", " ", "r", "a", "w", "\n">>

WordsPerLine == 8

---------------------------------------------------------------------------
(* The run of assemble_file(input_file, output_file).                      *)

\* the loop with a skipped line appending an empty word
ReadLineSkipTakesSlot ==
    /\ pc = "read"
    /\ pos < Len(input)
    /\ LET line == input[pos + 1]
           encoded == parse_line(line)
       IN  /\ pos' = pos + 1
           /\ IF encoded.tag = "raise"
              THEN /\ stdout' = Append(stdout,
                                       [msg |-> "Error in line", text |-> strip(line)])
                   /\ raised' = encoded
                   /\ pc' = "raised"
                   /\ UNCHANGED machine_codes
              ELSE /\ machine_codes' = Append(machine_codes, encoded.val)
                   /\ UNCHANGED <<stdout, raised, pc>>
    /\ UNCHANGED <<input, outfile, i, arg, ret>>

\* the loop with the exception reported and swallowed: per-line recovery
ReadLineRecovers ==
    /\ pc = "read"
    /\ pos < Len(input)
    /\ LET line == input[pos + 1]
           encoded == parse_line(line)
       IN  /\ pos' = pos + 1
           /\ IF encoded.tag = "raise"
              THEN /\ stdout' = Append(stdout,
                                       [msg |-> "Error in line", text |-> strip(line)])
                   /\ UNCHANGED <<machine_codes, raised, pc>>
              ELSE /\ machine_codes' =
                        IF encoded.tag = "none" THEN machine_codes
                        ELSE Append(machine_codes, encoded.val)
                   /\ UNCHANGED <<stdout, raised, pc>>
    /\ UNCHANGED <<input, outfile, i, arg, ret>>

\* lines 164-172, one iteration of `for line in f`
ReadLine ==
    /\ pc = "read"
    /\ pos < Len(input)
    /\ LET line == input[pos + 1]
           encoded == parse_line(line)
       IN  /\ pos' = pos + 1
           /\ IF encoded.tag = "raise"
              THEN /\ stdout' = Append(stdout,
                                       [msg |-> "Error in line", text |-> strip(line)])
                   /\ raised' = encoded
                   /\ pc' = "raised"
                   /\ UNCHANGED machine_codes
              ELSE /\ machine_codes' =
                        IF encoded.tag = "none" THEN machine_codes
                        ELSE Append(machine_codes, encoded.val)
                   /\ UNCHANGED <<stdout, raised, pc>>
    /\ UNCHANGED <<input, outfile, i, arg, ret>>

\* the loop of line 165 ends with the file
EndOfInput ==
    /\ pc = "read"
    /\ pos = Len(input)
    /\ pc' = "open"
    /\ UNCHANGED <<input, pos, machine_codes, outfile, i, stdout, raised, arg, ret>>

\* lines 175-178: the output file is opened (truncated) and the header written
OpenOutput ==
    /\ pc = "open"
    /\ outfile' = [opened |-> TRUE, text |-> Header]
    /\ i' = 0
    /\ pc' = "write"
    /\ UNCHANGED <<input, pos, machine_codes, stdout, raised, arg, ret>>

hex_words == [k \in DOMAIN machine_codes |-> FormatWord(machine_codes[k])]

\* lines 181-182, one iteration of the writing loop
WriteChunk ==
    /\ pc = "write"
    /\ i < Len(hex_words)
    /\ outfile' = [outfile EXCEPT !.text =
                      @ \o Join(Slice(hex_words, i, i + WordsPerLine), <<" ">>)
                        \o <<"\n">>]
    /\ i' = i + WordsPerLine
    /\ UNCHANGED <<input, pos, machine_codes, stdout, raised, pc, arg, ret>>

\* the writing loop ends, the file is closed, line 184 prints
Finish ==
    /\ pc = "write"
    /\ i >= Len(hex_words)
    /\ stdout' = Append(stdout, [msg |-> "Assembly complete", text |-> <<>>])
    /\ pc' = "done"
    /\ UNCHANGED <<input, pos, machine_codes, outfile, i, raised, arg, ret>>

---------------------------------------------------------------------------
(* Inputs.                                                                 *)

SeqsUpTo(S, n) == UNION {[1..k -> S] : k \in 0..n}

\* str(n), the decimal text of an integer
RECURSIVE ToDec(_)
ToDec(n) ==
    IF n < 0 THEN <<"-">> \o ToDec(0 - n)
    ELSE IF n < 10 THEN <<DigitChars[n + 1]>>
    ELSE ToDec(n \div 10) \o <<DigitChars[(n % 10) + 1]>>

RegToken(v) == <<"R">> \o ToDec(v)

\* a source line: the mnemonic, a space, the operands separated by ", "
Render(ins, toks) ==
    ins \o (IF toks = <<>> THEN <<>> ELSE <<" ">> \o Join(toks, <<",", " ">>))
        \o <<"\n">>

LineAdd == ADD \o <<" ", "R", "1", ",", "R", "2", ",", "R", "3", "\n">>

LineJump == JUMP \o <<" ", "-", "5", "\n">>

LineBlank == <<" ", "\n">>

LineComment == <<" ", "/", "/", " ", "n", "o", "p", "\n">>

LineAddiLower ==
    <<"a", "d", "d", "i", " ", "R", "0", ",", " ", "R", "0", ",", " ", "-", "1",
      " ", "/", "/", "d", "e", "c", "\n">>

LineLoadNoNewline == LD \o <<"\t", "R", "2", ",", "3", "0", "0">>

LineUnknown == <<"F", "O", "O", " ", "R", "1", "\n">>

LineMissing == ADD \o <<" ", "R", "1", "\n">>

LineOutOfRange == PUSH \o <<" ", "R", "1", "6", "\n">>

LineCommaOnly == <<",", "\n">>

AllLines ==
    {LineAdd, LineJump, LineBlank, LineComment, LineAddiLower, LineLoadNoNewline,
     LineUnknown, LineMissing, LineOutOfRange, LineCommaOnly}

MaxShortLen == 3

MaxLongLen == 17

\* the line of a long file that differs: another word, a skip, a fault
OddLines == {LineJump, LineComment, LineUnknown}

\* a long file: the same instruction on every line but one
LongFile(n, p, l) == [k \in 1..n |-> IF k = p THEN l ELSE LineAdd]

\* every short file over all the lines, and long files that fill more than one
\* output line, with one other line at any position
Files ==
    SeqsUpTo(AllLines, MaxShortLen) \cup
    {LongFile(n, p, l) : n \in 1..MaxLongLen, p \in 1..MaxLongLen, l \in OddLines}

---------------------------------------------------------------------------
(* The specification of a run of assemble_file.                            *)

Init ==
    /\ input \in Files
    /\ pos = 0
    /\ machine_codes = <<>>
    /\ outfile = [opened |-> FALSE, text |-> <<>>]
    /\ i = 0
    /\ stdout = <<>>
    /\ raised = NoCall
    /\ pc = "read"
    /\ arg = NoCall
    /\ ret = NoCall

Next == ReadLine \/ EndOfInput \/ OpenOutput \/ WriteChunk \/ Finish

Spec == Init /\ [][Next]_vars

---------------------------------------------------------------------------
(* Direct calls of signed, reg_number and parse_line, on inputs drawn from  *)
(* bounded sets.                                                            *)

Idle ==
    /\ input = <<>>
    /\ pos = 0
    /\ machine_codes = <<>>
    /\ outfile = [opened |-> FALSE, text |-> <<>>]
    /\ i = 0
    /\ stdout = <<>>
    /\ raised = NoCall

MaxVal == 9000

\* the widths the encoders pass to signed
Widths == {5, 13}

InitSigned ==
    /\ Idle
    /\ pc = "call"
    /\ arg \in [val : (0 - MaxVal)..MaxVal, bits : Widths]
    /\ ret = NoCall

CallSigned ==
    /\ pc = "call"
    /\ ret' = Ok(signed(arg.val, arg.bits))
    /\ pc' = "ret"
    /\ UNCHANGED <<input, pos, machine_codes, outfile, i, stdout, raised, arg>>

SpecSigned == InitSigned /\ [][CallSigned]_vars

\* the characters register tokens are drawn from
TokenChars == {"R", "r", "X", "0", "1", "5", "6", "9", "-", "+", "_"}

MaxTokenLen == 3

InitReg ==
    /\ Idle
    /\ pc = "call"
    /\ arg \in SeqsUpTo(TokenChars, MaxTokenLen)
    /\ ret = NoCall

CallRegNumber ==
    /\ pc = "call"
    /\ ret' = reg_number(arg)
    /\ pc' = "ret"
    /\ UNCHANGED <<input, pos, machine_codes, outfile, i, stdout, raised, arg>>

SpecReg == InitReg /\ [][CallRegNumber]_vars

MaxWrap == 1

MaxImm == 2

\* immediates around zero, around the sign boundary of each field width and
\* around multiples of 2^width, in both directions
ImmValues ==
    {s * k * (2 ^ w) + d :
        s \in {-1, 1}, k \in 0..MaxWrap, w \in {5, 9, 13}, d \in (0 - MaxImm)..MaxImm}
    \cup {s * (2 ^ (w - 1)) + d : s \in {-1, 1}, w \in {5, 9, 13}, d \in {-1, 0}}

OperandValues(kind) == IF kind = "reg" THEN 0..15 ELSE ImmValues

OperandToken(kind, v) == IF kind = "reg" THEN RegToken(v) ELSE ToDec(v)

\* the operand values of a branch's shape
ValueTuples(shape) ==
    IF Len(shape) = 1
    THEN {<<a>> : a \in OperandValues(shape[1])}
    ELSE IF Len(shape) = 2
    THEN {<<a, b>> : a \in OperandValues(shape[1]), b \in OperandValues(shape[2])}
    ELSE {<<a, b, c>> : a \in OperandValues(shape[1]), b \in OperandValues(shape[2]),
                        c \in OperandValues(shape[3])}

BranchOf(ins) == CHOOSE b \in DOMAIN Branches : ins \in Branches[b]

\* a call of parse_line: the line, and what it was written from
Call(ins, toks, vals, line) ==
    [ins |-> ins, toks |-> toks, vals |-> vals, line |-> line]

\* every instruction of a branch, with operands that are well formed
ValidCalls(b) ==
    {Call(ins, [k \in DOMAIN vals |-> OperandToken(BranchOperands[b][k], vals[k])],
          vals,
          Render(ins, [k \in DOMAIN vals |->
                          OperandToken(BranchOperands[b][k], vals[k])])) :
        ins \in Branches[b], vals \in ValueTuples(BranchOperands[b])}

\* operand tokens, well formed and not
SampleTokens ==
    {<<"R", "1">>, <<"R", "1", "5">>, <<"R", "1", "6">>, <<"X", "3">>,
     <<"7">>, <<"-", "1">>, <<"R", "x">>, <<"x">>}

MaxTokens == 3

\* every mnemonic with any operand tokens, too few of them included
TokenCalls ==
    {Call(ins, toks, <<>>, Render(ins, toks)) :
        ins \in DOMAIN OPCODES, toks \in SeqsUpTo(SampleTokens, MaxTokens)}

\* the other lines: blank, comment, unknown mnemonic, lower case
OtherCalls ==
    {Call(<<>>, <<>>, <<>>, l) :
        l \in {LineBlank, LineComment, LineUnknown, LineCommaOnly}}
    \cup {Call(ADDI, <<RegToken(0), RegToken(0), ToDec(-1)>>, <<0, 0, -1>>, LineAddiLower),
          Call(LD, <<RegToken(2), ToDec(300)>>, <<2, 300>>, LineLoadNoNewline),
          Call(ADD, <<RegToken(1), RegToken(2), RegToken(3)>>, <<1, 2, 3>>, LineAdd),
          Call(JUMP, <<ToDec(-5)>>, <<-5>>, LineJump)}

InitLine ==
    /\ Idle
    /\ pc = "call"
    /\ \/ \E b \in DOMAIN Branches : arg \in ValidCalls(b)
       \/ arg \in TokenCalls \cup OtherCalls
    /\ ret = NoCall

CallParseLine ==
    /\ pc = "call"
    /\ ret' = parse_line(arg.line)
    /\ pc' = "ret"
    /\ UNCHANGED <<input, pos, machine_codes, outfile, i, stdout, raised, arg>>

SpecLine == InitLine /\ [][CallParseLine]_vars

---------------------------------------------------------------------------
(* Properties of signed and reg_number.                                    *)

\* C5: for every integer value and both widths the encoders use, signed
\* returns (never raises) the one integer of [0, 2^width) congruent to the
\* value modulo 2^width; values a multiple of 2^width apart give the same
\* field, so ADDI R0,R0,v encodes like ADDI R0,R0,signed(v,5) (-1 like 31).
SignedIsTheResidue ==
    pc = "ret" =>
        LET m == 2 ^ arg.bits IN
        /\ ret.tag = "ok"
        /\ ret.val \in 0..(m - 1)
        /\ (ret.val - arg.val) % m = 0
        /\ signed(arg.val + m, arg.bits) = ret.val
        /\ signed(arg.val - m, arg.bits) = ret.val
        /\ arg.bits = 5 =>
              encode_I(OPCODES[ADDI], 0, 0, arg.val)
                  = encode_I(OPCODES[ADDI], 0, 0, ret.val)
        /\ (arg.val = -1 /\ arg.bits = 5) => ret.val = 31

\* signed has been applied to a value below -2^13 at width 13
SignedBelowRange ==
    /\ pc = "ret"
    /\ arg.bits = 13
    /\ arg.val < 0 - (2 ^ 13)
    /\ ret.val > 0

\* the value of a sequence of decimal digits
RECURSIVE PlainDecimal(_)
PlainDecimal(d) ==
    IF d = <<>> THEN 0
    ELSE 10 * PlainDecimal(SubSeq(d, 1, Len(d) - 1))
         + (IndexIn(DigitChars, d[Len(d)]) - 1)

\* `R` followed by one or more decimal digits
IsRDigits(tok) ==
    /\ Len(tok) >= 2
    /\ tok[1] = "R"
    /\ \A k \in 2..Len(tok) : tok[k] \in Range(DigitChars)

\* the error kinds of the claims, as assembler.py raises them
InvalidRegisterSyntax == {InvalidRegister, InvalidLiteral}

RegisterOutOfRange == RegisterOutOfRangeError

MissingOperand == ListIndexOutOfRange

\* C4: reg_number accepts exactly the tokens `R` + decimal digits with a value
\* in 0..15 and returns that value; a wrong prefix fails with
\* InvalidRegisterSyntax, a value outside [0,15] with RegisterOutOfRange.
RegisterTokensExact ==
    pc = "ret" =>
        /\ (ret.tag = "ok") <=> (IsRDigits(arg) /\ PlainDecimal(Tail(arg)) \in 0..15)
        /\ ret.tag = "ok" => ret.val = PlainDecimal(Tail(arg))
        /\ ~startswith(arg, "R") => ret \in InvalidRegisterSyntax
        /\ (IsRDigits(arg) /\ PlainDecimal(Tail(arg)) > 15) => ret = RegisterOutOfRange

---------------------------------------------------------------------------
(* Properties of parse_line and the encoders.                              *)

\* bits lo .. lo+width-1 of a word
Field(w, lo, width) == (w \div (2 ^ lo)) % (2 ^ width)

\* C6 as stated: every word produced for a valid instruction is a 16-bit value
\* whose bits 15..11 hold the mnemonic's opcode.
WordIs16BitOpcodeAt11 ==
    (pc = "ret" /\ ret.tag = "ok") =>
        /\ ret.val \in 0..(2 ^ 16 - 1)
        /\ Field(ret.val, 11, 5) = OPCODES[arg.ins]

\* C6, amended: every word produced for a valid instruction is an 18-bit
\* unsigned value (0 <= word < 2^18) whose bits 17..13 hold the mnemonic's
\* 5-bit opcode.
WordIs18BitOpcodeAt13 ==
    (pc = "ret" /\ ret.tag = "ok") =>
        /\ ret.val \in 0..(2 ^ 18 - 1)
        /\ OPCODES[arg.ins] \in 0..31
        /\ Field(ret.val, 13, 5) = OPCODES[arg.ins]

\* a word that does not fit 16 bits has been produced
WordAbove16Bits ==
    /\ pc = "ret"
    /\ ret.tag = "ok"
    /\ arg.ins = POP
    /\ ret.val >= 2 ^ 16

\* the format table: the field widths of each branch's layout, MSB to LSB,
\* the opcode first, then one field per operand, then the padding if any
FormatTable ==
    << <<5, 4, 4, 4, 1>>,
       <<5, 4, 4, 5>>,
       <<5, 4, 9>>,
       <<5, 4, 9>>,
       <<5, 13>>,
       <<5, 4, 9>>,
       <<5, 4, 4, 4, 1>>,
       <<5, 4, 9>> >>

RECURSIVE SumSeq(_)
SumSeq(q) == IF q = <<>> THEN 0 ELSE Head(q) + SumSeq(Tail(q))

\* the lowest bit of the k-th field of a layout
LowBit(widths, k) == SumSeq(SubSeq(widths, k + 1, Len(widths)))

\* C7: for every format and all operands, the fields of the word lie in
\* non-overlapping ranges with the widths of the format table, MSB to LSB:
\* reading them back gives the opcode, each register index, the immediate
\* reduced to its field width, and zero in every pad bit.
FieldsReadBack ==
    (pc = "ret" /\ arg.vals # <<>>) =>
        LET b == BranchOf(arg.ins)
            widths == FormatTable[b]
            n == Len(BranchOperands[b])
            got(k) == Field(ret.val, LowBit(widths, k), widths[k])
        IN  /\ ret.tag = "ok"
            /\ Len(arg.vals) = n
            /\ ret.val \in 0..(2 ^ SumSeq(widths) - 1)
            /\ got(1) = OPCODES[arg.ins]
            /\ \A k \in 1..n : got(k + 1) = arg.vals[k] % (2 ^ widths[k + 1])
            /\ \A k \in (n + 2)..Len(widths) : got(k) = 0
            /\ (arg.ins = ADD /\ arg.vals = <<1, 2, 3>>) =>
                  /\ Field(ret.val, 13, 5) = 0
                  /\ Field(ret.val, 9, 4) = 1
                  /\ Field(ret.val, 5, 4) = 2
                  /\ Field(ret.val, 1, 4) = 3

\* an I-type instruction with an immediate below -2^5 has been encoded
NegativeImmediateEncoded ==
    /\ pc = "ret"
    /\ ret.tag = "ok"
    /\ arg.ins = ADDI
    /\ arg.vals # <<>>
    /\ arg.vals[3] < -32

\* C10: the 18 mnemonics have distinct 5-bit opcodes, each is taken by exactly
\* one format branch (parse_line never raises `Unhandled instruction format`),
\* and a word determines the mnemonic it was encoded from, so two lines with
\* different mnemonics never give the same word.
OpcodesDistinctAndHandled ==
    /\ Cardinality(DOMAIN OPCODES) = 18
    /\ \A m \in DOMAIN OPCODES : OPCODES[m] \in 0..31
    /\ pc = "ret" =>
          /\ ret # UnhandledFormat
          /\ arg.ins \in DOMAIN OPCODES =>
                Cardinality({b \in DOMAIN Branches : arg.ins \in Branches[b]}) = 1
          /\ ret.tag = "ok" =>
                {m \in DOMAIN OPCODES : OPCODES[m] = ret.val \div (2 ^ 13)} = {arg.ins}

\* the last mnemonic of the table has been encoded
LastMnemonicEncoded ==
    /\ pc = "ret"
    /\ ret.tag = "ok"
    /\ arg.ins = POP

\* how many operand tokens the format of a mnemonic reads
Required(ins) == Len(BranchOperands[BranchOf(ins)])

\* the decoding of the k-th operand token of a line, as its format asks
Decoded(ins, toks, k) ==
    IF BranchOperands[BranchOf(ins)][k] = "reg" THEN reg_number(toks[k])
    ELSE py_int(toks[k])

TooFewOperands ==
    /\ pc = "ret"
    /\ arg.ins \in DOMAIN OPCODES
    /\ Len(arg.toks) < Required(arg.ins)

\* C3 as stated: a line of a known mnemonic with fewer operand tokens than its
\* format requires fails with the MissingOperand error kind.
TooFewFailsMissingOperand == TooFewOperands => ret = MissingOperand

\* C3, amended: such a line always fails; it fails with the missing-operand
\* error (the IndexError of indexing the token list, no ValueError) exactly when
\* every operand token that is present decodes, and otherwise with the error of
\* the first present token that does not decode, raised before the missing
\* token is reached.
TooFewFailsAtFirstFault ==
    TooFewOperands =>
        LET bad == {k \in DOMAIN arg.toks : Decoded(arg.ins, arg.toks, k).tag = "raise"}
        IN  /\ ret.tag = "raise"
            /\ MissingOperand.exc = "IndexError"
            /\ bad = {} => ret = MissingOperand
            /\ bad # {} =>
                  /\ ret = Decoded(arg.ins, arg.toks,
                                   CHOOSE k \in bad : \A j \in bad : k <= j)
                  /\ ret.exc = "ValueError"

\* a line with one well-formed operand where three are required has failed
MissingOperandRaised ==
    /\ TooFewOperands
    /\ arg.ins = ADD
    /\ arg.toks = <<RegToken(1)>>
    /\ ret = MissingOperand

---------------------------------------------------------------------------
(* Properties of a run of assemble_file.                                   *)

\* s.split(sep) for a one-character separator: every field, empty ones too
RECURSIVE SplitOn(_, _, _, _)
SplitOn(s, sep, cur, acc) ==
    IF s = <<>> THEN Append(acc, cur)
    ELSE IF Head(s) = sep THEN SplitOn(Tail(s), sep, <<>>, Append(acc, cur))
    ELSE SplitOn(Tail(s), sep, Append(cur, Head(s)), acc)

\* the lines of a text, each ended by a newline, and what follows the last one
TextLines(text) ==
    LET segs == SplitOn(text, "\n", <<>>, <<>>)
    IN  [lines |-> SubSeq(segs, 1, Len(segs) - 1), rest |-> segs[Len(segs)]]

IsHexWord(f) == Len(f) = 5 /\ \A k \in DOMAIN f : f[k] \in Range(HexChars)

RECURSIVE HexValue(_)
HexValue(f) ==
    IF f = <<>> THEN 0
    ELSE 16 * HexValue(SubSeq(f, 1, Len(f) - 1)) + (IndexIn(HexChars, f[Len(f)]) - 1)

RECURSIVE Flatten(_)
Flatten(qs) == IF qs = <<>> THEN <<>> ELSE Head(qs) \o Flatten(Tail(qs))

\* the data lines of the output file, each as its space-separated fields
DataFields ==
    LET data == Tail(TextLines(outfile.text).lines)
    IN  [k \in DOMAIN data |-> SplitOn(data[k], " ", <<>>, <<>>)]

\* the words of the output file, read back from its text
WrittenWords ==
    LET fields == Flatten(DataFields)
    IN  [k \in DOMAIN fields |-> HexValue(fields[k])]

\* the words of the lines that are not skipped, in source order
RECURSIVE ExpectedWords(_)
ExpectedWords(lines) ==
    IF lines = <<>> THEN <<>>
    ELSE LET r == parse_line(Head(lines)) IN
         (IF r.tag = "ok" THEN <<r.val>> ELSE <<>>) \o ExpectedWords(Tail(lines))

\* the lines of the input on which parse_line raises
FaultyLines == {k \in DOMAIN input : parse_line(input[k]).tag = "raise"}

\* C1: when every line parses, the words written are the words of the
\* non-skipped lines in source order: the k-th line that is neither blank nor
\* comment-only gives the k-th word, and skipped lines take no position.
WordsFollowSourceOrder ==
    /\ pc = "read" => machine_codes = ExpectedWords(SubSeq(input, 1, pos))
    /\ pc = "done" =>
          /\ FaultyLines = {}
          /\ \A k \in DOMAIN DataFields :
                \A f \in DOMAIN DataFields[k] : IsHexWord(DataFields[k][f])
          /\ WrittenWords = ExpectedWords(input)

\* a file with a skipped line between two different instructions was written
SkippedLineBetweenWords ==
    /\ pc = "done"
    /\ input = <<LineAdd, LineComment, LineJump>>
    /\ WrittenWords = <<582, 106491>>

\* C2: when parse_line raises on a line, assemble_file stops at the first such
\* line: no later line is parsed, the exception leaves the function, and the
\* output file is never opened or written, wherever the line is.
FailFastNoOutput ==
    FaultyLines # {} =>
        LET first == CHOOSE k \in FaultyLines : \A j \in FaultyLines : k <= j
        IN  /\ outfile = [opened |-> FALSE, text |-> <<>>]
            /\ pos <= first
            /\ pc \in {"read", "raised"}
            /\ pc = "raised" <=> pos = first
            /\ pc = "raised" =>
                  /\ raised = parse_line(input[first])
                  /\ machine_codes = ExpectedWords(SubSeq(input, 1, first - 1))
                  /\ ~ENABLED Next

\* a run has stopped at a faulty line that follows a valid instruction and
\* precedes further lines
RaisedMidFile ==
    /\ pc = "raised"
    /\ Len(machine_codes) > 8
    /\ pos < Len(input)

\* C8: a successful run with n words leaves the header line `v2.0 raw` and
\* ceil(n/8) data lines after it: each but the last holds 8 words, the last
\* 1 to 8, none is empty, and together they hold the words in emission order;
\* with n = 0 there is only the header.
OutputLayout ==
    pc = "done" =>
        LET text == TextLines(outfile.text)
            n == Len(machine_codes)
            lines == Len(DataFields)
        IN  /\ outfile.opened
            /\ text.rest = <<>>
            /\ text.lines # <<>>
            /\ text.lines[1] = SubSeq(Header, 1, Len(Header) - 1)
            /\ lines = (n + 7) \div 8
            /\ n = 0 => outfile.text = Header
            /\ \A k \in 1..lines :
                  /\ Len(DataFields[k]) \in 1..8
                  /\ k < lines => Len(DataFields[k]) = 8
                  /\ \A f \in DOMAIN DataFields[k] : IsHexWord(DataFields[k][f])
            /\ WrittenWords = machine_codes

\* a run has written more words than two output lines hold
ThreeDataLinesWritten ==
    /\ pc = "done"
    /\ Len(machine_codes) = 17
    /\ Len(DataFields) = 3
    /\ Len(DataFields[3]) = 1

====
